---- MODULE Spec2Model ----
(***************************************************************************)
(* Field composition of react-tform: a FormField built from a root         *)
(* FieldInput, the fields derived from it by pipe/prop/transform/narrow/or,*)
(* the updates their mutators hand to the root input, and the error path   *)
(* algebra (descendErrors and the re-prefixing done by setErrors).         *)
(*                                                                         *)
(* JavaScript values are modelled as follows: an object is a record, an    *)
(* optional property that is absent is a key missing from the record's     *)
(* DOMAIN, a function value is a record naming the function (Call1/Call2   *)
(* apply it), and a closure is a record of the values it captured.         *)
(***************************************************************************)
EXTENDS Integers, Sequences, FiniteSets, TLC

\* ---------------------------------------------------------------- bounds
\* leaf values of the form value are 0..MaxVal
MaxVal == 1
\* longest error list the root input is given
MaxErrs == 2
\* deepest chain of pipe steps below the root field
MaxDepth == 2
\* most calls made on fields' mutators in one behaviour
MaxCalls == 2
\* most of them that are calls of setErrors
MaxErrorsCalls == 1
\* latest reading of the clock
MaxNow == 3
\* most events a form records in one behaviour
MaxEvents == 2

\* ---------------------------------------------------------------- helpers
Front(s) == SubSeq(s, 1, Len(s) - 1)

Last(s) == s[Len(s)]

Min(a, b) == IF a < b THEN a ELSE b

\* Array.prototype.slice(from, to) for 0 <= from, 0 <= to
Slice(s, from, to) == SubSeq(s, from + 1, Min(to, Len(s)))

\* the value `undefined` where an object is expected
Undefined == [undefined |-> TRUE]

\* the value `null` where an object is expected
Null == [null |-> TRUE]

\* ---------------------------------------------------------------- values
Leaf == 0..MaxVal

SubValue == [b : Leaf]

RootValue == [a : SubValue, c : Leaf]

\* the default handed to or() on the root field
DefaultRoot == [a |-> [b |-> 0], c |-> 0]

\* ------------------------------------------------------- function values
\* ramda prop(key), assoc(key), identity; the arrow function of doOr; and
\* the functions callers pass in (transform pairs, functional updaters).
PropFn(key) == [name |-> "prop", key |-> key]

AssocFn(key) == [name |-> "assoc", key |-> key]

IdentityFn == [name |-> "identity"]

\* value => value ?? defaultValue
NullishFn(d) == [name |-> "nullish", d |-> d]

\* caller's functions on leaves
FlipFn == [name |-> "flip"]

IncFn == [name |-> "inc"]

\* caller's function on the sub-object a: bump its b
BumpFn == [name |-> "bump"]

\* caller's functions on error lists
ClearFn == [name |-> "clear"]

PushFn(e) == [name |-> "push", e |-> e]

\* a ValueOrFactory<T, [T]> argument: a plain value, or a function of the
\* previous value (what `typeof v === "function"` tells apart)
Plain(v) == [typeof |-> "value", v |-> v]

Factory(f) == [typeof |-> "function", f |-> f]

\* the arrow function doPipe's newSetValue hands to this.setValue; it
\* captures operator, newValue and this.value
ValueUpdater(operator, newValue, thisValue) ==
  [name |-> "valueUpdater", operator |-> operator, newValue |-> newValue,
   thisValue |-> thisValue]

\* the arrow function doPipe's setErrors hands to this.setErrors; it
\* captures operator.path ?? [] and errors
ErrorsUpdater(path, errors) ==
  [name |-> "errorsUpdater", path |-> path, errors |-> errors]

RECURSIVE Call1(_, _)
RECURSIVE callOrGet(_, _)
RECURSIVE runValueUpdater(_, _)
RECURSIVE runErrorsUpdater(_, _)

\* f(v, x); a function of one parameter ignores the second argument
Call2(f, v, x) ==
  IF f.name = "assoc"
  THEN [k \in (DOMAIN x) \cup {f.key} |-> IF k = f.key THEN v ELSE x[k]]
  ELSE Call1(f, v)

\* ---------------------------------------------------------------- lenses
\* ramda lens(getter, setter), view and set
lens(getter, setter) == [getter |-> getter, setter |-> setter]

\* lensProp whose setter returns the value written instead of the container
lensPropReplaces(key) == lens(PropFn(key), IdentityFn)

lensProp(key) == lens(PropFn(key), AssocFn(key))

view(l, x) == Call1(l.getter, x)

set(l, v, x) == Call2(l.setter, v, x)

\* FormField.prop / transform / narrow
prop(key) == [operator |-> lensProp(key), path |-> <<key>>]

transform(to, back) == lens(to, back)

narrow(func) == transform(func, IdentityFn)

\* operator.path ?? []
PathOrEmpty(operator) == IF "path" \in DOMAIN operator THEN operator.path ELSE <<>>

\* -------------------------------------------------------- error algebra
\* descendErrors with the map forgotten: the errors kept are not re-pathed
descendErrorsNoStrip(errors, path) ==
  SelectSeq(errors, LAMBDA e : Slice(e.path, 0, Len(path)) = path)

\* descendErrors with the filter forgotten: every error is re-pathed
descendErrorsNoFilter(errors, path) ==
  [i \in 1..Len(errors) |->
     [errors[i] EXCEPT !.path = Slice(@, Len(path), Len(@))]]

descendErrors(errors, path) ==
  LET kept == SelectSeq(errors, LAMBDA e : Slice(e.path, 0, Len(path)) = path)
  IN  [i \in 1..Len(kept) |->
         [kept[i] EXCEPT !.path = Slice(@, Len(path), Len(@))]]

\* the re-prefixing with the segments in the wrong order
ascendSuffix(newErrors, path) ==
  [i \in 1..Len(newErrors) |-> [newErrors[i] EXCEPT !.path = @ \o path]]

\* the map of doPipe's setErrors: every error's path gets the prefix back
ascend(newErrors, path) ==
  [i \in 1..Len(newErrors) |-> [newErrors[i] EXCEPT !.path = path \o @]]

\* ------------------------------------------------- updaters of doPipe
\* the updater with the resolved new value dropped: it writes back what it read
runValueUpdaterKeepsOld(u, prev) ==
  set(u.operator, view(u.operator, prev), u.thisValue)

\* the updater resolving the new value against the snapshot instead of prev
runValueUpdaterFromSnapshot(u, prev) ==
  set(u.operator, callOrGet(u.newValue, view(u.operator, u.thisValue)), u.thisValue)

\* prev => set(operator, callOrGet(newValue, view(operator, prev)), this.value)
runValueUpdater(u, prev) ==
  set(u.operator, callOrGet(u.newValue, view(u.operator, prev)), u.thisValue)

\* prevErrors => callOrGet(errors, descendErrors(prevErrors, path)).map(...)
runErrorsUpdater(u, prevErrors) ==
  ascend(callOrGet(u.errors, descendErrors(prevErrors, u.path)), u.path)

\* f(x)
Call1(f, x) ==
  CASE f.name = "prop" -> IF f.key \in DOMAIN x THEN x[f.key] ELSE Undefined
    [] f.name = "identity" -> x
    [] f.name = "nullish" -> IF x = Undefined \/ x = Null THEN f.d ELSE x
    [] f.name = "flip" -> MaxVal - x
    [] f.name = "inc" -> (x + 1) % (MaxVal + 1)
    [] f.name = "bump" -> [x EXCEPT !.b = (@ + 1) % (MaxVal + 1)]
    [] f.name = "clear" -> <<>>
    [] f.name = "push" -> IF Len(x) < MaxErrs THEN Append(x, f.e) ELSE x
    [] f.name = "valueUpdater" -> runValueUpdater(f, x)
    [] f.name = "errorsUpdater" -> runErrorsUpdater(f, x)

\* value-or-factory callOrGet(v, arg)
callOrGet(v, arg) == IF v.typeof = "function" THEN Call1(v.f, arg) ELSE v.v

\* ------------------------------------------------------------- the field
\* from.errors ?? []
ErrorsOrEmpty(from) == IF "errors" \in DOMAIN from THEN from.errors ELSE <<>>

\* the root input's callbacks, as the references a field holds to them
InputSetValue == [name |-> "input.setValue"]

InputSetErrors == [name |-> "input.setErrors"]

\* the constructor with the filter of selfErrors forgotten
FormFieldImplSelfIsAll(from) ==
  LET selfErrors == ErrorsOrEmpty(from)
      base == [path |-> from.path,
               disabled |-> from.disabled,
               value |-> from.value,
               setValue |-> from.setValue,
               blur |-> from.blur,
               commit |-> from.commit,
               focus |-> from.focus,
               hasErrors |-> Len(ErrorsOrEmpty(from)) > 0,
               hasSelfErrors |-> Len(selfErrors) > 0,
               setErrors |-> from.setErrors]
  IN  IF "errors" \in DOMAIN from
      THEN base @@ [errors |-> from.errors, selfErrors |-> selfErrors]
      ELSE base

\* new FormFieldImpl(from): the attributes the constructor computes
FormFieldImpl(from) ==
  LET selfErrors == SelectSeq(ErrorsOrEmpty(from), LAMBDA e : Len(e.path) = 0)
      base == [path |-> from.path,
               disabled |-> from.disabled,
               value |-> from.value,
               setValue |-> from.setValue,
               blur |-> from.blur,
               commit |-> from.commit,
               focus |-> from.focus,
               hasErrors |-> Len(ErrorsOrEmpty(from)) > 0,
               hasSelfErrors |-> Len(selfErrors) > 0,
               setErrors |-> from.setErrors]
  IN  IF "errors" \in DOMAIN from
      THEN base @@ [errors |-> from.errors, selfErrors |-> selfErrors]
      ELSE base

\* the closure newSetValue of doPipe: it captures this.setValue,
\* this.value and the operator
NewSetValue(this, operator) ==
  [name |-> "newSetValue", setValue |-> this.setValue, thisValue |-> this.value,
   operator |-> operator.operator]

\* the closure setErrors of doPipe: it captures this.setErrors and the
\* operator's path
NewSetErrors(this, operator) ==
  [name |-> "setErrors", setErrors |-> this.setErrors, path |-> PathOrEmpty(operator)]

\* the path doPipe gives the derived field
NewPath(this, operator) ==
  this.path \o (IF "path" \in DOMAIN this THEN this.path ELSE <<>>)

\* doPipe handing the derived field the parent's focus as blur and its blur
\* as focus
doPipeSwapsTriggers(this, operator) ==
  FormFieldImpl([path |-> NewPath(this, operator),
                 value |-> view(operator.operator, this.value),
                 setValue |-> NewSetValue(this, operator),
                 blur |-> this.focus,
                 commit |-> this.commit,
                 focus |-> this.blur,
                 disabled |-> this.disabled,
                 errors |-> descendErrors(ErrorsOrEmpty(this), PathOrEmpty(operator)),
                 setErrors |-> NewSetErrors(this, operator)])

\* doPipe on an OperatorWithPath
doPipeWithPath(this, operator) ==
  FormFieldImpl([path |-> NewPath(this, operator),
                 value |-> view(operator.operator, this.value),
                 setValue |-> NewSetValue(this, operator),
                 blur |-> this.blur,
                 commit |-> this.commit,
                 focus |-> this.focus,
                 disabled |-> this.disabled,
                 errors |-> descendErrors(ErrorsOrEmpty(this), PathOrEmpty(operator)),
                 setErrors |-> NewSetErrors(this, operator)])

\* doPipe: a bare operator (a lens, `typeof operator === "function"`) is
\* wrapped as { operator }
doPipe(this, operator) ==
  IF "getter" \in DOMAIN operator
  THEN doPipeWithPath(this, [operator |-> operator])
  ELSE doPipeWithPath(this, operator)

doProp(this, key) == doPipe(this, prop(key))

doTransform(this, to, back) == doPipe(this, transform(to, back))

doNarrow(this, to) == doPipe(this, narrow(to))

\* doOr with the default forgotten: the value is passed as it is
doOrKeepsNullish(this, defaultValue) == doNarrow(this, IdentityFn)

doOr(this, defaultValue) == doNarrow(this, NullishFn(defaultValue))

\* what reaches the root input's setValue when the field's setValue
\* (the closure sv) is called with newValue
RECURSIVE CallSetValue(_, _)
CallSetValue(sv, newValue) ==
  IF sv.name = "input.setValue"
  THEN newValue
  ELSE CallSetValue(sv.setValue,
                    Factory(ValueUpdater(sv.operator, newValue, sv.thisValue)))

\* what reaches the root input's setErrors when the field's setErrors
\* (the closure se) is called with errors
RECURSIVE CallSetErrors(_, _)
CallSetErrors(se, errors) ==
  IF se.name = "input.setErrors"
  THEN errors
  ELSE CallSetErrors(se.setErrors, Factory(ErrorsUpdater(se.path, errors)))

\* ------------------------------------------------------------ the state
VARIABLES
  input,        \* the root FieldInput's data, held by the state layer
  field,        \* the FormField object the caller holds
  valueQueue,   \* arguments given to the root input's setValue, not yet applied
  errorsQueue,  \* arguments given to the root input's setErrors, not yet applied
  calls,        \* how often each callback of the root input was called
  log,          \* the callbacks of the root input in the order they were called
  state,        \* the FormInternalState held by useFormState
  now,          \* Date.now()
  events,       \* how many events the form has recorded
  options,      \* the AutoSubmitOptions passed to useAutoSubmit
  auto,         \* the useAutoSubmit instance: its state, effect memory and result
  timers,       \* the host's timers, in the order setTimeout made them
  hook          \* a useFormHook instance: its hooks, effect memory and runs

fieldVars == <<input, field, valueQueue, errorsQueue, calls, log>>

formVars == <<state, now, events, options, auto, timers, hook>>

vars == <<fieldVars, formVars>>

\* the FieldInput the state layer hands to FormFieldImpl.from
FieldInputOf(in) ==
  in @@ [setValue |-> InputSetValue, setErrors |-> InputSetErrors,
         blur |-> "blur", commit |-> "commit", focus |-> "focus"]

\* FormFieldImpl.from
from(in) == FormFieldImpl(in)

\* ------------------------------------------------------------ the inputs
RootPaths == {<<>>, <<"form">>}

ErrorPool ==
  { [message |-> "x", path |-> <<"a", "b">>],
    [message |-> "y", path |-> <<"c">>, temporary |-> TRUE],
    [message |-> "z", path |-> <<>>, temporary |-> FALSE] }

SeqsUpTo(S, n) == UNION {[1..k -> S] : k \in 0..n}

ErrorLists == SeqsUpTo(ErrorPool, MaxErrs)

\* the static type of the field's value, read off the chain of operators
\* its setValue closure went through
RECURSIVE ShapeOf(_)
ShapeOf(sv) ==
  IF sv.name = "input.setValue"
  THEN "root"
  ELSE IF sv.operator.getter.name = "prop"
       THEN (IF sv.operator.getter.key = "a" THEN "sub" ELSE "leaf")
       ELSE ShapeOf(sv.setValue)

RECURSIVE DepthOf(_)
DepthOf(sv) == IF sv.name = "input.setValue" THEN 0 ELSE 1 + DepthOf(sv.setValue)

KeysOf(shape) ==
  CASE shape = "root" -> {"a", "c"}
    [] shape = "sub" -> {"b"}
    [] shape = "leaf" -> {}

ValueArgs(shape) ==
  CASE shape = "root" -> {Plain(DefaultRoot)}
    [] shape = "sub" -> {Plain(v) : v \in SubValue} \cup {Factory(BumpFn)}
    [] shape = "leaf" -> {Plain(n) : n \in Leaf} \cup {Factory(IncFn)}

ErrorsArgs ==
  {Plain(<<e>>) : e \in ErrorPool} \cup {Factory(ClearFn)}
    \cup {Factory(PushFn(e)) : e \in ErrorPool}

TotalCalls == calls.setValue + calls.setErrors + calls.blur + calls.commit + calls.focus

CanDerive == DepthOf(field.setValue) < MaxDepth

\* no callback of the root input was called yet
NoCalls == [setValue |-> 0, setErrors |-> 0, blur |-> 0, commit |-> 0, focus |-> 0]

\* -------------------------------------------------------- the form state
\* { ...r, [k]: v }
With(r, k, v) == (k :> v) @@ r

\* r[k]?.getTime() ?? 0
TimeOrZero(r, k) == IF k \in DOMAIN r THEN r[k] ELSE 0

\* the values of the form the autosave watches
FormValues == {0, 1}

\* initialFormState(initialValue), built when the clock reads t
initialFormState(initialValue, t) ==
  [lastInitialized |-> t,
   initializedValue |-> initialValue,
   value |-> initialValue,
   submitCount |-> 0,
   validateRequests |-> 0,
   isSubmitting |-> FALSE,
   isValidating |-> FALSE]

\* _.temporary !== true
Blocks(error) == ~("temporary" \in DOMAIN error /\ error.temporary = TRUE)

\* canSubmit that lets nothing through while there are errors
canSubmitNoErrors(st) == ErrorsOrEmpty(st) = <<>>

\* useFormState: !(state.errors ?? []).some(_ => _.temporary !== true)
canSubmit(st) ==
  ~ \E i \in 1..Len(ErrorsOrEmpty(st)) : Blocks(ErrorsOrEmpty(st)[i])

\* the earlier useFormState:
\* state.errors === undefined ? true : !state.errors.some(_ => _.temporary !== true)
canSubmitEarlier(st) ==
  IF "errors" \notin DOMAIN st
  THEN TRUE
  ELSE ~ \E i \in 1..Len(st.errors) : Blocks(st.errors[i])

\* state.submittedValue ?? state.initializedValue
SubmittedOrInitialized(st) ==
  IF "submittedValue" \in DOMAIN st THEN st.submittedValue ELSE st.initializedValue

isDirty(st) ==
  TimeOrZero(st, "lastChanged") > st.lastInitialized /\ st.value # st.initializedValue

isDirtySinceSubmitted(st) ==
  /\ TimeOrZero(st, "lastChanged") > TimeOrZero(st, "lastSubmitted")
  /\ st.value # SubmittedOrInitialized(st)

\* isFocused that takes a focus at the time of the last blur for later
isFocusedOrSame(st) == TimeOrZero(st, "lastFocused") >= TimeOrZero(st, "lastBlurred")

isFocused(st) == TimeOrZero(st, "lastFocused") > TimeOrZero(st, "lastBlurred")

isBlurred(st) == TimeOrZero(st, "lastBlurred") > TimeOrZero(st, "lastFocused")

\* the FormState useFormState returns: the state and what is computed from it
FormStateOf(st) ==
  st @@ [canSubmit |-> canSubmit(st),
         isDirty |-> isDirty(st),
         isDirtySinceSubmitted |-> isDirtySinceSubmitted(st),
         isFocused |-> isFocused(st),
         isBlurred |-> isBlurred(st)]

\* ------------------------------------------------- hooks and the autosave
\* the timestamp of the form state each hook watches
FORM_HOOKS ==
  [blur |-> "lastBlurred",
   change |-> "lastChanged",
   commit |-> "lastCommitted",
   focus |-> "lastFocused",
   init |-> "lastInitialized",
   afterSubmit |-> "lastSubmitted",
   beforeSubmit |-> "lastSubmitRequested",
   afterValidate |-> "lastValidated",
   beforeValidate |-> "lastValidateRequested"]

\* useFormHook's value taken from the first of the hooks only
HookValueFirstOnly(form, hooks) ==
  IF hooks = <<>>
  THEN <<>>
  ELSE IF FORM_HOOKS[Head(hooks)] \in DOMAIN form
       THEN <<form[FORM_HOOKS[Head(hooks)]]>>
       ELSE <<>>

\* useFormHook's value: [hooks].flat().map(hook => FORM_HOOKS[hook](form)).filter(isNotNil)
RECURSIVE HookValue(_, _)
HookValue(form, hooks) ==
  IF hooks = <<>>
  THEN <<>>
  ELSE (IF FORM_HOOKS[Head(hooks)] \in DOMAIN form
        THEN <<form[FORM_HOOKS[Head(hooks)]]>>
        ELSE <<>>) \o HookValue(form, Tail(hooks))

\* r[k] === true
IsTrue(r, k) == k \in DOMAIN r /\ r[k] = TRUE

\* the FormContext given to useAutoSubmit: the form's state, and what the
\* form adds to it
FormOf(opts, st) == FormStateOf(st) @@ opts.form

\* active with the autosave's own disabled option forgotten
activeWhateverOption(opts, form) ==
  /\ ~IsTrue(form, "disabled")
  /\ form.canSubmit
  /\ form.isDirtySinceSubmitted

\* useAutoSubmit's active
active(opts, form) ==
  /\ ~IsTrue(opts, "disabled")
  /\ ~IsTrue(form, "disabled")
  /\ form.canSubmit
  /\ form.isDirtySinceSubmitted

\* trigger that takes an undefined delay for no delay
triggerWithoutDelay(isActive, opts, key, t) ==
  IF ~isActive
  THEN <<>>
  ELSE IF key \notin DOMAIN opts.on
       THEN << <<t>> >>
       ELSE << <<t + opts.on[key]>> >>

\* the calls of setNext that trigger(options.on?.[key]) makes at time t; an
\* argument of setNext is <<n>> for the number n and <<>> for undefined
trigger(isActive, opts, key, t) ==
  IF ~isActive
  THEN <<>>
  ELSE IF key \notin DOMAIN opts.on
       THEN <<>>
       ELSE << <<t + opts.on[key]>> >>

\* the calls of setNext that cancel() makes
cancel == << <<>> >>

\* the state `next` of a useAutoSubmit instance: <<n>> or <<>>
NextOf(a) == a.next

\* the instance a with its state `next` set to the argument arg of setNext
SetNext(a, arg) == [a EXCEPT !.next = arg]

Max(a, b) == IF a > b THEN a ELSE b

\* clearTimeout(id)
clearTimeout(ts, id) ==
  IF ts[id].status = "pending" THEN [ts EXCEPT ![id].status = "cleared"] ELSE ts

\* setTimeout(callback, delay) at time t
setTimeout(ts, delay, t) == Append(ts, [due |-> t + delay, status |-> "pending"])

\* the options an autosave is given
AutoSubmitOptions ==
  LET Pick(full, keys) == [k \in keys |-> full[k]]
      forms == {[submit |-> "submit"], [submit |-> "submit", disabled |-> TRUE]}
      ons == {Pick([immediate |-> 1, delayed |-> 2, none |-> 0], keys \cup {"none"}) :
                keys \in SUBSET {"immediate", "delayed"}}
      whole == [immediate |-> 1, delayed |-> 2, none |-> 0]
  IN  {[form |-> [submit |-> "submit"], on |-> on] : on \in ons}
        \cup {[form |-> f, on |-> whole, disabled |-> d] : f \in forms, d \in BOOLEAN}

\* useAutoSubmit before its first render: the state `next` is undefined and
\* no effect has left a cleanup with a timer to clear
Unmounted == [mounted |-> FALSE, next |-> <<>>, timeout |-> <<>>]

\* the dependencies of useAutoSubmit's effects in a render of instance a
DepsOf(opts, st, a) ==
  LET form == FormOf(opts, st)
  IN  [change |-> HookValue(form, <<"change">>),
       blur |-> HookValue(form, <<"blur">>),
       commit |-> HookValue(form, <<"commit">>),
       next |-> NextOf(a),
       beforeSubmit |-> HookValue(form, <<"beforeSubmit">>),
       active |-> active(opts, form)]

\* useDeepCompareEffect(effect, deps) runs effect after the first render and
\* after a render whose deps are not deeply equal to the last render's
useDeepCompareEffect(first, prevDeps, deps) == first \/ prevDeps # deps

\* the lists of hooks a component gives to useFormHook
HookLists == {<<"focus">>, <<"focus", "blur">>, <<"init", "focus">>}

\* useFormHook(form, hooks, action) before the first render of its
\* component; runs counts the calls of action
HookUnmounted(hooks) ==
  [hooks |-> hooks, mounted |-> FALSE, value |-> <<>>, seen |-> [none |-> 0], runs |-> 0]

\* no component calls useFormHook
NoHook == HookUnmounted(<<>>)

\* a form nobody has touched; its autosave is disabled
FormIdle ==
  /\ state = initialFormState(0, 1)
  /\ now = 1
  /\ events = 0
  /\ options = [form |-> [submit |-> "submit"], on |-> [none |-> 0], disabled |-> TRUE]
  /\ auto = Unmounted
  /\ timers = <<>>
  /\ hook = NoHook

\* a new form; its autosave is disabled
InitForm ==
  /\ input = [path |-> <<>>, value |-> DefaultRoot, disabled |-> FALSE]
  /\ field = from(FieldInputOf(input))
  /\ valueQueue = <<>>
  /\ errorsQueue = <<>>
  /\ calls = NoCalls
  /\ log = <<>>
  /\ state = initialFormState(0, 1)
  /\ now = 1
  /\ events = 0
  /\ options = [form |-> [submit |-> "submit"], on |-> [none |-> 0], disabled |-> TRUE]
  /\ auto = Unmounted
  /\ timers = <<>>
  /\ hook = NoHook

\* no render of the autosave is outstanding: it is mounted, and the effects
\* of its last render ran on what the form and the autosave hold now
Flushed ==
  IF auto.mounted THEN auto.deps = DepsOf(options, state, auto) ELSE FALSE

\* time passes
Tick ==
  /\ now < MaxNow
  /\ Flushed
  /\ now' = now + 1
  /\ UNCHANGED <<state, events, options, auto, timers, hook>>
  /\ UNCHANGED fieldVars

\* the events a form records: each stores a part of the state and the time;
\* the renders an event asks for are done before the next event is handled
\* the value was changed
FormChange ==
  /\ events < MaxEvents
  /\ Flushed
  /\ events' = events + 1
  /\ \E v \in FormValues :
       state' = With(With(state, "value", v), "lastChanged", now)
  /\ UNCHANGED <<now, options, auto, timers, hook>>
  /\ UNCHANGED fieldVars

FormBlur ==
  /\ events < MaxEvents
  /\ Flushed
  /\ events' = events + 1
  /\ state' = With(state, "lastBlurred", now)
  /\ UNCHANGED <<now, options, auto, timers, hook>>
  /\ UNCHANGED fieldVars

FormCommit ==
  /\ events < MaxEvents
  /\ Flushed
  /\ events' = events + 1
  /\ state' = With(state, "lastCommitted", now)
  /\ UNCHANGED <<now, options, auto, timers, hook>>
  /\ UNCHANGED fieldVars

FormFocus ==
  /\ events < MaxEvents
  /\ Flushed
  /\ events' = events + 1
  /\ state' = With(state, "lastFocused", now)
  /\ UNCHANGED <<now, options, auto, timers, hook>>
  /\ UNCHANGED fieldVars

\* a validation ended with the list errors
FormValidate ==
  /\ events < MaxEvents
  /\ Flushed
  /\ events' = events + 1
  /\ \E errors \in ErrorLists :
       state' = With(With(state, "errors", errors), "lastValidated", now)
  /\ UNCHANGED <<now, options, auto, timers, hook>>
  /\ UNCHANGED fieldVars

\* form.submit() was called, by the user
FormSubmit ==
  /\ events < MaxEvents
  /\ Flushed
  /\ events' = events + 1
  /\ state' = With(With(state, "lastSubmitRequested", now), "isSubmitting", TRUE)
  /\ UNCHANGED <<now, options, auto, timers, hook>>
  /\ UNCHANGED fieldVars

\* the submission ended
FormSubmitted ==
  /\ state.isSubmitting
  /\ events < MaxEvents
  /\ Flushed
  /\ events' = events + 1
  /\ state' = [With(With(state, "lastSubmitted", now), "submittedValue", state.value)
                 EXCEPT !.isSubmitting = FALSE, !.submitCount = @ + 1]
  /\ UNCHANGED <<now, options, auto, timers, hook>>
  /\ UNCHANGED fieldVars

\* a new form with an autosave that is given both delays
InitAutoLive ==
  /\ input = [path |-> <<>>, value |-> DefaultRoot, disabled |-> FALSE]
  /\ field = from(FieldInputOf(input))
  /\ valueQueue = <<>>
  /\ errorsQueue = <<>>
  /\ calls = NoCalls
  /\ log = <<>>
  /\ state = initialFormState(0, 1)
  /\ now = 1
  /\ events = 0
  /\ options \in {o \in AutoSubmitOptions :
                    "immediate" \in DOMAIN o.on /\ "disabled" \notin DOMAIN o
                      /\ "disabled" \notin DOMAIN o.form}
  /\ auto = Unmounted
  /\ timers = <<>>
  /\ hook = NoHook

\* a new form, and an autosave that is about to be attached to it
InitAuto ==
  /\ input = [path |-> <<>>, value |-> DefaultRoot, disabled |-> FALSE]
  /\ field = from(FieldInputOf(input))
  /\ valueQueue = <<>>
  /\ errorsQueue = <<>>
  /\ calls = NoCalls
  /\ log = <<>>
  /\ state = initialFormState(0, 1)
  /\ now = 1
  /\ events = 0
  /\ options \in AutoSubmitOptions
  /\ auto = Unmounted
  /\ timers = <<>>
  /\ hook = NoHook

\* a render of the component that calls useAutoSubmit, and the effects that
\* run after it, in the order the hooks are called
Render ==
  \E deps \in {DepsOf(options, state, auto)} :
  LET isActive == deps.active
      first == ~auto.mounted
      next == deps.next
      Runs(key) == first \/ auto.deps[key] # deps[key]
      Acts(key) == Runs(key) /\ deps[key] # <<>>
      onChange == IF Acts("change") THEN trigger(isActive, options, "immediate", now) ELSE <<>>
      onBlur == IF Acts("blur") THEN trigger(isActive, options, "delayed", now) ELSE <<>>
      onCommit == IF Acts("commit") THEN trigger(isActive, options, "delayed", now) ELSE <<>>
      cleaned == IF Runs("next") /\ auto.timeout # <<>>
                 THEN clearTimeout(timers, auto.timeout[1])
                 ELSE timers
      timed == IF Runs("next") /\ next # <<>>
               THEN setTimeout(cleaned, Max(next[1] - now, 0), now)
               ELSE cleaned
      onBeforeSubmit == IF Acts("beforeSubmit") THEN cancel ELSE <<>>
      onActive == IF Runs("active") /\ ~isActive THEN cancel ELSE <<>>
      setNexts == onChange \o onBlur \o onCommit \o onBeforeSubmit \o onActive
      status == [active |-> isActive, next |-> next, pending |-> next # <<>>]
  IN  /\ IF first THEN TRUE ELSE auto.deps # deps
      /\ auto' = [mounted |-> TRUE,
                  deps |-> deps,
                  status |-> status,
                  next |-> IF setNexts # <<>> THEN setNexts[Len(setNexts)] ELSE next,
                  timeout |-> IF Runs("next")
                              THEN (IF next # <<>> THEN <<Len(timed)>> ELSE <<>>)
                              ELSE auto.timeout]
      /\ timers' = timed
      /\ UNCHANGED <<state, now, events, options, hook>>
      /\ UNCHANGED fieldVars

\* the user of the autosave calls the cancel() it returned
Cancel ==
  /\ auto.mounted
  /\ auto.next # <<>>
  /\ events < MaxEvents
  /\ Flushed
  /\ events' = events + 1
  /\ auto' = SetNext(auto, cancel[1])
  /\ UNCHANGED <<state, now, options, timers, hook>>
  /\ UNCHANGED fieldVars

\* a timer is due, and the host calls its callback, options.form.submit;
\* the last reading of the clock stands for every later time
TimerFires ==
  /\ \E id \in 1..Len(timers) :
       /\ timers[id].status = "pending"
       /\ timers[id].due <= now \/ now = MaxNow
       /\ timers' = [timers EXCEPT ![id].status = "fired"]
  /\ state' = With(With(state, "lastSubmitRequested", now), "isSubmitting", TRUE)
  /\ UNCHANGED <<now, events, options, auto, hook>>
  /\ UNCHANGED fieldVars

\* a new form with a disabled autosave, and a component that gives hooks
\* to useFormHook
InitHook ==
  /\ input = [path |-> <<>>, value |-> DefaultRoot, disabled |-> FALSE]
  /\ field = from(FieldInputOf(input))
  /\ valueQueue = <<>>
  /\ errorsQueue = <<>>
  /\ calls = NoCalls
  /\ log = <<>>
  /\ state = initialFormState(0, 1)
  /\ now = 1
  /\ events = 0
  /\ options = [form |-> [submit |-> "submit"], on |-> [none |-> 0], disabled |-> TRUE]
  /\ auto = Unmounted
  /\ timers = <<>>
  /\ \E hooks \in HookLists : hook = HookUnmounted(hooks)

\* a render of the component that calls useFormHook, the first or one after
\* the form's state changed, and the effect that runs after it
RenderHook ==
  /\ hook.hooks # <<>>
  /\ IF hook.mounted THEN hook.seen # state ELSE TRUE
  /\ \E value \in {HookValue(FormStateOf(state), hook.hooks)} :
       hook' = [hooks |-> hook.hooks,
                mounted |-> TRUE,
                value |-> value,
                seen |-> state,
                runs |-> IF useDeepCompareEffect(~hook.mounted,
                                                 <<hook.hooks, hook.value>>,
                                                 <<hook.hooks, value>>)
                            /\ Len(value) > 0
                         THEN hook.runs + 1
                         ELSE hook.runs]
  /\ UNCHANGED <<state, now, events, options, auto, timers>>
  /\ UNCHANGED fieldVars

\* ------------------------------------------------------------- actions
\* a form without errors so far
Init ==
  /\ input \in [path : {<<>>}, value : RootValue, disabled : {FALSE}]
  /\ field = from(FieldInputOf(input))
  /\ valueQueue = <<>>
  /\ errorsQueue = <<>>
  /\ calls = NoCalls
  /\ log = <<>>
  /\ FormIdle

\* one form, without errors so far
InitMutators ==
  /\ input = [path |-> <<>>, value |-> DefaultRoot, disabled |-> FALSE]
  /\ field = from(FieldInputOf(input))
  /\ valueQueue = <<>>
  /\ errorsQueue = <<>>
  /\ calls = NoCalls
  /\ log = <<>>
  /\ FormIdle

\* a form whose state layer already holds an error list
InitErrors ==
  /\ input \in [path : {<<>>}, value : {DefaultRoot}, disabled : {FALSE},
                errors : ErrorLists]
  /\ field = from(FieldInputOf(input))
  /\ valueQueue = <<>>
  /\ errorsQueue = <<>>
  /\ calls = NoCalls
  /\ log = <<>>
  /\ FormIdle

\* a root input with any path and disabled flag
InitCompose ==
  /\ input \in [path : RootPaths, value : {DefaultRoot}, disabled : BOOLEAN]
  /\ field = from(FieldInputOf(input))
  /\ valueQueue = <<>>
  /\ errorsQueue = <<>>
  /\ calls = NoCalls
  /\ log = <<>>
  /\ FormIdle

\* a form whose value may still be undefined or null
InitOr ==
  /\ input \in [path : {<<>>}, value : RootValue \cup {Undefined, Null},
                disabled : {FALSE}]
  /\ field = from(FieldInputOf(input))
  /\ valueQueue = <<>>
  /\ errorsQueue = <<>>
  /\ calls = NoCalls
  /\ log = <<>>
  /\ FormIdle

\* the state layer builds the root field from the current input
From ==
  /\ field' = from(FieldInputOf(input))
  /\ UNCHANGED <<input, valueQueue, errorsQueue, calls, log>>
  /\ UNCHANGED formVars

\* field.pipe(operator) with a bare operator
Pipe ==
  /\ CanDerive
  /\ \E key \in KeysOf(ShapeOf(field.setValue)) :
       field' = doPipe(field, lensProp(key))
  /\ UNCHANGED <<input, valueQueue, errorsQueue, calls, log>>
  /\ UNCHANGED formVars

\* field.prop(key)
Prop ==
  /\ CanDerive
  /\ \E key \in KeysOf(ShapeOf(field.setValue)) :
       field' = doProp(field, key)
  /\ UNCHANGED <<input, valueQueue, errorsQueue, calls, log>>
  /\ UNCHANGED formVars

\* field.transform(to, back)
Transform ==
  /\ CanDerive
  /\ ShapeOf(field.setValue) = "leaf"
  /\ field' = doTransform(field, FlipFn, FlipFn)
  /\ UNCHANGED <<input, valueQueue, errorsQueue, calls, log>>
  /\ UNCHANGED formVars

\* field.narrow(to)
Narrow ==
  /\ CanDerive
  /\ field' = doNarrow(field, IdentityFn)
  /\ UNCHANGED <<input, valueQueue, errorsQueue, calls, log>>
  /\ UNCHANGED formVars

\* field.or(defaultValue)
Or ==
  /\ CanDerive
  /\ ShapeOf(field.setValue) = "root"
  /\ field' = doOr(field, DefaultRoot)
  /\ UNCHANGED <<input, valueQueue, errorsQueue, calls, log>>
  /\ UNCHANGED formVars

\* setValue that also stores the new value in the field object it is called on
SetValueInPlace ==
  /\ TotalCalls < MaxCalls
  /\ \E newValue \in ValueArgs(ShapeOf(field.setValue)) :
       /\ valueQueue' = Append(valueQueue, CallSetValue(field.setValue, newValue))
       /\ field' = [field EXCEPT !.value = callOrGet(newValue, @)]
  /\ calls' = [calls EXCEPT !.setValue = @ + 1]
  /\ log' = Append(log, "setValue")
  /\ UNCHANGED <<input, errorsQueue>>
  /\ UNCHANGED formVars

\* field.setValue(newValue)
SetValue ==
  /\ TotalCalls < MaxCalls
  /\ \E newValue \in ValueArgs(ShapeOf(field.setValue)) :
       valueQueue' = Append(valueQueue, CallSetValue(field.setValue, newValue))
  /\ calls' = [calls EXCEPT !.setValue = @ + 1]
  /\ log' = Append(log, "setValue")
  /\ UNCHANGED <<input, field, errorsQueue>>
  /\ UNCHANGED formVars

\* field.setErrors(errors)
SetErrors ==
  /\ TotalCalls < MaxCalls
  /\ calls.setErrors < MaxErrorsCalls
  /\ \E errors \in ErrorsArgs :
       errorsQueue' = Append(errorsQueue, CallSetErrors(field.setErrors, errors))
  /\ calls' = [calls EXCEPT !.setErrors = @ + 1]
  /\ log' = Append(log, "setErrors")
  /\ UNCHANGED <<input, field, valueQueue>>
  /\ UNCHANGED formVars

\* setValueAndCommit calling commit before setValue
SetValueAndCommitReversed ==
  /\ TotalCalls + 1 < MaxCalls
  /\ \E value \in {a \in ValueArgs(ShapeOf(field.setValue)) : a.typeof = "value"} :
       valueQueue' = Append(valueQueue, CallSetValue(field.setValue, value))
  /\ calls' = [calls EXCEPT !.setValue = @ + 1, ![field.commit] = @ + 1]
  /\ log' = log \o <<field.commit, "setValue">>
  /\ UNCHANGED <<input, field, errorsQueue>>
  /\ UNCHANGED formVars

\* field.setValueAndCommit(value): from.setValue(value), then from.commit()
SetValueAndCommit ==
  /\ TotalCalls + 1 < MaxCalls
  /\ \E value \in {a \in ValueArgs(ShapeOf(field.setValue)) : a.typeof = "value"} :
       valueQueue' = Append(valueQueue, CallSetValue(field.setValue, value))
  /\ calls' = [calls EXCEPT !.setValue = @ + 1, ![field.commit] = @ + 1]
  /\ log' = log \o <<"setValue", field.commit>>
  /\ UNCHANGED <<input, field, errorsQueue>>
  /\ UNCHANGED formVars

\* field.blur(), field.commit(), field.focus()
Blur ==
  /\ TotalCalls < MaxCalls
  /\ calls' = [calls EXCEPT ![field.blur] = @ + 1]
  /\ log' = Append(log, field.blur)
  /\ UNCHANGED <<input, field, valueQueue, errorsQueue>>
  /\ UNCHANGED formVars

Commit ==
  /\ TotalCalls < MaxCalls
  /\ calls' = [calls EXCEPT ![field.commit] = @ + 1]
  /\ log' = Append(log, field.commit)
  /\ UNCHANGED <<input, field, valueQueue, errorsQueue>>
  /\ UNCHANGED formVars

Focus ==
  /\ TotalCalls < MaxCalls
  /\ calls' = [calls EXCEPT ![field.focus] = @ + 1]
  /\ log' = Append(log, field.focus)
  /\ UNCHANGED <<input, field, valueQueue, errorsQueue>>
  /\ UNCHANGED formVars

\* the state layer applies the oldest pending setValue argument to the
\* value that is current then
ApplyValue ==
  /\ valueQueue # <<>>
  /\ input' = [input EXCEPT !.value = callOrGet(Head(valueQueue), @)]
  /\ valueQueue' = Tail(valueQueue)
  /\ UNCHANGED <<field, errorsQueue, calls, log>>
  /\ UNCHANGED formVars

\* the state layer applies the oldest pending setErrors argument to the
\* error list that is current then
ApplyErrors ==
  /\ errorsQueue # <<>>
  /\ input' = [k \in (DOMAIN input) \cup {"errors"} |->
                 IF k = "errors"
                 THEN callOrGet(Head(errorsQueue), ErrorsOrEmpty(input))
                 ELSE input[k]]
  /\ errorsQueue' = Tail(errorsQueue)
  /\ UNCHANGED <<field, valueQueue, calls, log>>
  /\ UNCHANGED formVars

\* writes through fields derived by prop, and the state layer applying them
Next ==
  \/ From
  \/ Prop
  \/ SetValue
  \/ ApplyValue

Spec == Init /\ [][Next]_vars

\* every mutator of a field, and the state layer's updates
NextMutators ==
  \/ From
  \/ Prop
  \/ SetValue
  \/ SetValueAndCommit
  \/ SetErrors
  \/ Blur
  \/ Commit
  \/ Focus
  \/ ApplyValue
  \/ ApplyErrors

SpecMutators == InitMutators /\ [][NextMutators]_vars

\* the error side alone, from a form that has errors
NextErrors ==
  \/ From
  \/ Prop
  \/ SetErrors
  \/ ApplyErrors

SpecErrors == InitErrors /\ [][NextErrors]_vars

\* every composition step, and the triggers passed through
NextCompose ==
  \/ From
  \/ Pipe
  \/ Prop
  \/ Transform
  \/ Narrow
  \/ Or
  \/ Blur
  \/ Commit
  \/ Focus

SpecCompose == InitCompose /\ [][NextCompose]_vars

\* or(default) on a root that may be nullish, and writes through it
NextOr ==
  \/ From
  \/ Or
  \/ SetValue
  \/ ApplyValue

SpecOr == InitOr /\ [][NextOr]_vars

\* the events of a form and what useFormState computes from its state
NextForm ==
  \/ Render
  \/ Tick
  \/ FormChange
  \/ FormBlur
  \/ FormFocus
  \/ FormValidate

SpecForm == InitForm /\ [][NextForm]_vars

\* a form and a component that watches it with useFormHook
NextHook ==
  \/ Render
  \/ RenderHook
  \/ Tick
  \/ FormChange
  \/ FormBlur
  \/ FormFocus

SpecHook == InitHook /\ [][NextHook]_vars

\* a form with an autosave: the form's events, time, renders and timers
NextAuto ==
  \/ Tick
  \/ FormChange
  \/ FormBlur
  \/ FormCommit
  \/ FormSubmit
  \/ FormSubmitted
  \/ Cancel
  \/ Render
  \/ TimerFires

SpecAuto == InitAuto /\ [][NextAuto]_vars

\* a form with an autosave that its user leaves alone: the events that
\* schedule a submit, time, renders and timers
NextAutoLive ==
  \/ Tick
  \/ FormChange
  \/ FormBlur
  \/ FormCommit
  \/ Render
  \/ TimerFires

\* renders are not put off for ever, time passes, and the host runs the
\* callback of a timer that is due
SpecAutoLive ==
  /\ InitAutoLive
  /\ [][NextAutoLive]_vars
  /\ WF_vars(Render)
  /\ WF_vars(Tick)
  /\ WF_vars(TimerFires)

\* ------------------------------------------------------------ properties
\* p begins with prefix, element by element
HasPrefix(p, prefix) ==
  /\ Len(p) >= Len(prefix)
  /\ \A i \in 1..Len(prefix) : p[i] = prefix[i]

\* the pending root update u was made by the setValue of the field
\* root.prop(key), called with a plain value or a caller's function
IsPropWrite(u, key) ==
  /\ u.typeof = "function"
  /\ u.f.name = "valueUpdater"
  /\ u.f.operator = lensProp(key)
  /\ \/ u.f.newValue.typeof = "value"
     \/ u.f.newValue.f.name \in {"inc", "bump"}

\* two writes are pending, through prop("a") and prop("c") of one root
\* snapshot, in either order
SiblingWritesPending ==
  /\ Len(valueQueue) = 2
  /\ \/ IsPropWrite(valueQueue[1], "a") /\ IsPropWrite(valueQueue[2], "c")
     \/ IsPropWrite(valueQueue[1], "c") /\ IsPropWrite(valueQueue[2], "a")
  /\ valueQueue[1].f.thisValue = valueQueue[2].f.thisValue

\* the value u's field asked for, given the parent value it is applied to
Wanted(u, parent) ==
  callOrGet(u.f.newValue, view(u.f.operator, parent))

\* C1: when prop("a") and prop("c") of one root snapshot both called
\* setValue and the two updaters are applied one after the other, each
\* replaces only its own key in the value current then, so the final root
\* value holds both new values.
C1_NoLostUpdate ==
  SiblingWritesPending =>
    LET u1 == valueQueue[1]
        u2 == valueQueue[2]
        mid == callOrGet(u1, input.value)
        final == callOrGet(u2, mid)
    IN  /\ view(u1.f.operator, final) = Wanted(u1, input.value)
        /\ view(u2.f.operator, final) = Wanted(u2, mid)

\* C2: two fields on disjoint paths, prop("a") and prop("c") of one root
\* snapshot, each calling setValue with a functional updater, give the
\* same final root value whichever root updater is applied first.
C2_SiblingUpdatersCommute ==
  ( /\ SiblingWritesPending
    /\ valueQueue[1].f.newValue.typeof = "function"
    /\ valueQueue[2].f.newValue.typeof = "function" ) =>
    callOrGet(valueQueue[2], callOrGet(valueQueue[1], input.value))
      = callOrGet(valueQueue[1], callOrGet(valueQueue[2], input.value))

\* the field the caller holds is root.prop("a").prop("b"), built from the
\* root input as it is now
HoldsFreshAB ==
  /\ field.setValue.name = "newSetValue"
  /\ field.setValue.operator = lensProp("b")
  /\ field.setValue.setValue.name = "newSetValue"
  /\ field.setValue.setValue.operator = lensProp("a")
  /\ field = doProp(doProp(from(FieldInputOf(input)), "a"), "b")

\* the plain value v that root.prop("a").prop("b").setValue was called
\* with, read off the update u that reached the root
PlainABWrite(u) == u.f.newValue.f.newValue

\* C3: root.prop("a").prop("b").setValue(v) invokes the root input's
\* setValue exactly once, with a function that maps the root value the
\* fields were built from to that value with a.b replaced by v and
\* everything else unchanged.
C3_NestedWriteReachesRoot ==
  [][ ( /\ HoldsFreshAB
        /\ calls'.setValue # calls.setValue
        /\ PlainABWrite(Last(valueQueue')).typeof = "value" ) =>
      ( /\ calls' = [calls EXCEPT !.setValue = @ + 1]
        /\ Len(valueQueue') = Len(valueQueue) + 1
        /\ Front(valueQueue') = valueQueue
        /\ Last(valueQueue').typeof = "function"
        /\ callOrGet(Last(valueQueue'), input.value)
             = [input.value EXCEPT !.a.b = PlainABWrite(Last(valueQueue')).v] )
    ]_vars

\* a write of 1 through root.prop("a").prop("b"), built from {a:{b:0}, ..},
\* has reached the root and has been applied
C3_Witness ==
  /\ field.setValue.name = "newSetValue"
  /\ field.setValue.operator = lensProp("b")
  /\ field.value = 0
  /\ calls.setValue = 1
  /\ valueQueue = <<>>
  /\ input.value.a.b = 1

\* the path segments of the composition steps from the root to the field
\* whose setErrors closure is se, in order
RECURSIVE StepsPath(_)
StepsPath(se) ==
  IF se.name = "input.setErrors" THEN <<>> ELSE StepsPath(se.setErrors) \o se.path

\* C4: the path of every field is the root input's path followed by the
\* path segments of every composition step from the root to the field, in
\* order; a step without a path adds no segment.
C4_PathAccumulates ==
  field.path = input.path \o StepsPath(field.setErrors)

\* p without its first n segments
DropFirst(p, n) == [i \in 1..(Len(p) - n) |-> p[i + n]]

\* the errors of the list that lie at or below the path, in the list's order
RECURSIVE Under(_, _)
Under(errors, path) ==
  IF errors = <<>>
  THEN <<>>
  ELSE (IF HasPrefix(Head(errors).path, path) THEN <<Head(errors)>> ELSE <<>>)
         \o Under(Tail(errors), path)

\* error e as seen from the path: the same message and temporary flag,
\* the path relative to it
SeenFrom(e, path) ==
  [k \in DOMAIN e |-> IF k = "path" THEN DropFirst(e.path, Len(path)) ELSE e[k]]

\* the list as seen from the path
Scoped(errors, path) ==
  LET under == Under(errors, path)
  IN  [i \in 1..Len(under) |-> SeenFrom(under[i], path)]

PropKeys == {"a", "b", "c"}

\* this step derived a field from the one held: the new field's setErrors
\* forwards to the setErrors of the field held before
DerivedInThisStep ==
  /\ field'.setErrors.name = "setErrors"
  /\ field'.setErrors.setErrors = field.setErrors

\* C5: the errors of a field derived by pipe are exactly the parent's
\* errors whose path begins with the operator's path, in the parent's
\* order, each with that prefix stripped and message and temporary flag
\* unchanged; nothing else is visible.
C5_ErrorsAreScoped ==
  [][ DerivedInThisStep =>
        \A key \in PropKeys :
          field'.setErrors.path = <<key>> =>
            field'.errors = Scoped(ErrorsOrEmpty(field), <<key>>)
    ]_vars

\* root.prop("a") of a root with errors x at a.b and y at c sees x at b only
C5_Witness ==
  /\ field.setErrors.name = "setErrors"
  /\ field.setErrors.path = <<"a">>
  /\ field.setErrors.setErrors.name = "input.setErrors"
  /\ ErrorsOrEmpty(input) = <<[message |-> "x", path |-> <<"a", "b">>],
                              [message |-> "y", path |-> <<"c">>, temporary |-> TRUE]>>
  /\ field.errors = <<[message |-> "x", path |-> <<"b">>]>>
  /\ calls = NoCalls
  /\ log = <<>>

\* the pending root update u was made by the setErrors of a field derived
\* in one step with a path, called with an updater function
IsDerivedErrorsUpdate(u) ==
  /\ u.typeof = "function"
  /\ u.f.name = "errorsUpdater"
  /\ u.f.errors.typeof = "function"
  /\ u.f.errors.f.name \in {"clear", "push"}

\* C6: setting errors on a derived field with an updater function merges
\* into the parent's list: once the update is applied, every parent error
\* whose path does not begin with the operator's path is still there,
\* unchanged.
C6_SiblingErrorsKept ==
  [][ ( ApplyErrors /\ IsDerivedErrorsUpdate(Head(errorsQueue)) ) =>
        LET path == Head(errorsQueue).f.path
            old == ErrorsOrEmpty(input)
        IN  \A i \in 1..Len(old) :
              ~HasPrefix(old[i].path, path) =>
                \E j \in 1..Len(input'.errors) : input'.errors[j] = old[i]
    ]_vars

\* for a root update u made by a derived field's setErrors: the path
\* segments of the steps from the root to that field, in order
RECURSIVE UpdatePath(_)
UpdatePath(u) ==
  IF u.typeof = "function" /\ u.f.name = "errorsUpdater"
  THEN u.f.path \o UpdatePath(u.f.errors)
  ELSE <<>>

\* ... and the argument the caller gave to that setErrors
RECURSIVE CallerErrors(_)
CallerErrors(u) ==
  IF u.typeof = "function" /\ u.f.name = "errorsUpdater"
  THEN CallerErrors(u.f.errors)
  ELSE u

\* C7: every error a derived field's setErrors forwards to its parent has
\* as path the operator's path followed by the path the caller gave, and a
\* caller's updater is applied to the descended view of the parent's list
\* that is current when the update is applied; through two prop steps the
\* root receives paths prefixed by both keys in composition order.
C7_ErrorsArePrefixed ==
  [][ ApplyErrors =>
        LET u == Head(errorsQueue)
            path == UpdatePath(u)
            given == callOrGet(CallerErrors(u), Scoped(ErrorsOrEmpty(input), path))
        IN  /\ Len(input'.errors) = Len(given)
            /\ \A i \in 1..Len(given) :
                 /\ input'.errors[i].path = path \o given[i].path
                 /\ input'.errors[i].message = given[i].message
    ]_vars

\* root.prop("a").prop("b") pushed the error x with the caller's path a.b,
\* and the root now holds it at a.b.a.b
C7_Witness ==
  /\ calls.setErrors > 0
  /\ errorsQueue = <<>>
  /\ "errors" \in DOMAIN input
  /\ \E i \in 1..Len(input.errors) :
       input.errors[i] = [message |-> "x", path |-> <<"a", "b", "a", "b">>]

SamplePaths ==
  {<<>>, <<"a">>, <<"b">>, <<"c">>, <<"a", "a">>, <<"a", "b">>, <<"a", "b", "a">>}

\* C8: descending an error list by a path and re-prepending the path to
\* every result gives exactly the sub-list of the errors whose paths begin
\* with that path, with the original paths, messages and order.
C8_DescendAscendRoundTrip ==
  \A path \in SamplePaths :
    ascend(descendErrors(ErrorsOrEmpty(input), path), path)
      = Under(ErrorsOrEmpty(input), path)

\* a list with one error below a.a and one elsewhere, left by a setErrors
\* call of a derived field
C8_Witness ==
  /\ calls.setErrors > 0
  /\ errorsQueue = <<>>
  /\ "errors" \in DOMAIN input
  /\ Len(input.errors) = 2
  /\ Len(Under(input.errors, <<"a", "a">>)) = 1
  /\ Len(descendErrors(input.errors, <<"a", "a">>)) = 1
  /\ Len(descendErrors(input.errors, <<"a", "a">>)[1].path) > 0

\* C9: for a field derived by any chain of pipe/prop/transform/narrow/or
\* steps, disabled equals the root input's disabled, and blur, commit and
\* focus each call the root input's callback of the same name exactly once
\* and call neither setValue nor setErrors.
C9_TriggersPassThrough ==
  /\ [](field.disabled = input.disabled)
  /\ [][ /\ Blur => /\ calls' = [calls EXCEPT !.blur = @ + 1]
                    /\ UNCHANGED <<valueQueue, errorsQueue>>
         /\ Commit => /\ calls' = [calls EXCEPT !.commit = @ + 1]
                      /\ UNCHANGED <<valueQueue, errorsQueue>>
         /\ Focus => /\ calls' = [calls EXCEPT !.focus = @ + 1]
                     /\ UNCHANGED <<valueQueue, errorsQueue>>
       ]_vars

\* a field two steps below a disabled root, the last step without a path,
\* on which blur and focus have been called
C9_Witness ==
  /\ DepthOf(field.setValue) = 2
  /\ field.setValue.operator.getter.name \in {"flip", "identity", "nullish"}
  /\ input.disabled
  /\ calls.blur = 1
  /\ calls.focus = 1

\* C10: a field is immutable once created: its setValue, setErrors, blur,
\* commit and focus change none of its attributes, only the upstream source
\* is updated, and the new value or errors show only in a field built
\* afterwards from the updated input.
C10_FieldIsImmutable ==
  [][ /\ ( \/ calls' # calls
           \/ input' # input
           \/ valueQueue' # valueQueue
           \/ errorsQueue' # errorsQueue ) => field' = field
      /\ ( /\ calls' = calls
           /\ input' = input
           /\ UNCHANGED <<valueQueue, errorsQueue>>
           /\ field'.setValue.name = "input.setValue" ) =>
           ( /\ field'.value = input.value
             /\ ("errors" \in DOMAIN field') = ("errors" \in DOMAIN input)
             /\ ErrorsOrEmpty(field') = ErrorsOrEmpty(input) )
    ]_vars

\* the field root.prop("c") still reads the value it was built with after
\* its write has been applied upstream
C10_Witness ==
  /\ field.setValue.name = "newSetValue"
  /\ field.setValue.operator = lensProp("c")
  /\ calls.setValue = 1
  /\ valueQueue = <<>>
  /\ field.value # input.value.c

\* ------------------------------------------------------------------ C11
Nullish(v) == v = Undefined \/ v = Null

\* this step derives a field from the one held: the new field's setValue
\* closure wraps the old field's (or() is the only derivation of SpecOr)
OrInThisStep ==
  /\ field'.setValue.name = "newSetValue"
  /\ field'.setValue.setValue = field.setValue
  /\ UNCHANGED <<input, valueQueue, errorsQueue, calls>>

\* the argument u of the root's setValue is DefaultRoot written through a
\* field made by or(DefaultRoot) on the root field
IsDefaultWrittenThroughOr(u) ==
  /\ u.typeof = "function"
  /\ u.f.name = "valueUpdater"
  /\ u.f.operator = narrow(NullishFn(DefaultRoot))
  /\ u.f.newValue = Plain(DefaultRoot)

\* C11: a field made by or(default) reads default while the value under it
\* is undefined or null and reads that value otherwise; and when default,
\* written through the field, is applied to the root, the root is such that
\* or(default) on a field rebuilt from it reads default.
C11_OrReadsAndWritesDefault ==
  [][ /\ OrInThisStep =>
           field'.value = IF Nullish(field.value) THEN DefaultRoot ELSE field.value
      /\ (valueQueue # <<>> /\ IsDefaultWrittenThroughOr(Head(valueQueue))
             /\ input' # input) =>
           /\ input'.value \in RootValue
           /\ doOr(from(FieldInputOf(input')), DefaultRoot).value = DefaultRoot
    ]_vars

\* a field made by or(DefaultRoot) while the root was undefined reads the
\* default, the default was written through it, and the state layer has
\* applied the write
C11_Witness ==
  /\ field.setValue.name = "newSetValue"
  /\ field.setValue.setValue = InputSetValue
  /\ field.setValue.operator = narrow(NullishFn(DefaultRoot))
  /\ field.setValue.thisValue = Undefined
  /\ field.value = DefaultRoot
  /\ calls.setValue = 1
  /\ valueQueue = <<>>
  /\ input.value = DefaultRoot

\* ------------------------------------------------------------------ C12
\* the field held is root.prop(key) for a root field whose value was o
IsRootProp(key, o) ==
  /\ field.setValue.name = "newSetValue"
  /\ field.setValue.setValue = InputSetValue
  /\ field.setValue.operator = prop(key).operator
  /\ field.setValue.thisValue = o

\* this step is field.setValue(field.value): the value read is written back
WritesBackInThisStep ==
  /\ Len(valueQueue') = Len(valueQueue) + 1
  /\ valueQueue'[Len(valueQueue')] = CallSetValue(field.setValue, Plain(field.value))

\* C12: for every object o and key k on it, setting through prop(k) what
\* prop(k) reads from o gives o; and the updater that
\* root.prop(k).setValue(root.prop(k).value) hands to the root returns the
\* root's value when applied to it.
C12_PropNoOpWrite ==
  [][ \A o \in RootValue : \A k \in DOMAIN o :
        (IsRootProp(k, o) /\ WritesBackInThisStep) =>
          /\ field.value = view(prop(k).operator, o)
          /\ set(prop(k).operator, view(prop(k).operator, o), o) = o
          /\ callOrGet(valueQueue'[Len(valueQueue')], o) = o
    ]_vars

\* root.prop("a").setValue(root.prop("a").value) is pending on the root the
\* field was built from
C12_Witness ==
  /\ IsRootProp("a", input.value)
  /\ valueQueue = <<CallSetValue(field.setValue, Plain(field.value))>>

\* ------------------------------------------------------------------ C13
\* the only operation of a field that calls more than one callback of the
\* root input is setValueAndCommit
CallsSeveralInThisStep == Len(log') > Len(log) + 1

\* C13: field.setValueAndCommit(v) calls the field's setValue with v once
\* and then the field's commit once, in that order, and calls nothing else:
\* the root receives one setValue argument, the one field.setValue(v) hands
\* it, and then one commit.
C13_SetValueThenCommit ==
  [][ CallsSeveralInThisStep =>
        /\ log' = log \o <<"setValue", field.commit>>
        /\ field.commit = "commit"
        /\ \E v \in LET shape == ShapeOf(field.setValue)
                     IN  IF shape = "root" THEN RootValue
                         ELSE IF shape = "sub" THEN SubValue ELSE Leaf :
              valueQueue' = Append(valueQueue, CallSetValue(field.setValue, Plain(v)))
        /\ calls' = [calls EXCEPT !.setValue = @ + 1, !.commit = @ + 1]
        /\ UNCHANGED <<input, field, errorsQueue>>
    ]_vars

\* setValueAndCommit was called on a derived field: the root has been handed
\* one updater, and then commit was called
C13_Witness ==
  /\ field.setValue.name = "newSetValue"
  /\ log = <<"setValue", "commit">>
  /\ Len(valueQueue) = 1
  /\ valueQueue[1].typeof = "function"
  /\ calls = [NoCalls EXCEPT !.setValue = 1, !.commit = 1]

\* ------------------------------------------------------------------ C14
\* the positions of the errors of list errs that sit on the field itself
SelfPositions(errs) == {i \in 1..Len(errs) : errs[i].path = <<>>}

\* self holds the errors of errs at the positions ps, in their order
IsSubListAt(self, errs, ps) ==
  /\ Len(self) = Cardinality(ps)
  /\ \A j \in 1..Len(self) :
       self[j] = errs[CHOOSE i \in ps : Cardinality({k \in ps : k <= i}) = j]

\* C14: a field's selfErrors are its errors with an empty path, in order
\* (and undefined when errors is undefined); hasErrors says that errors is
\* not empty and hasSelfErrors that selfErrors is not empty, so hasSelfErrors
\* implies hasErrors, and errors on descendants alone give hasErrors without
\* hasSelfErrors.
C14_SelfErrors ==
  LET errs == ErrorsOrEmpty(field)
      self == IF "selfErrors" \in DOMAIN field THEN field.selfErrors ELSE <<>>
  IN  /\ ("selfErrors" \in DOMAIN field) = ("errors" \in DOMAIN field)
      /\ IsSubListAt(self, errs, SelfPositions(errs))
      /\ field.hasErrors = (errs # <<>>)
      /\ field.hasSelfErrors = (self # <<>>)
      /\ field.hasSelfErrors => field.hasErrors
      /\ (errs # <<>> /\ SelfPositions(errs) = {}) =>
           (field.hasErrors /\ ~field.hasSelfErrors)

\* a root with an error at a.b and one on itself; and root.prop("a") of it,
\* whose one error is on its descendant b
C14_Witness ==
  /\ ErrorsOrEmpty(input) = <<[message |-> "x", path |-> <<"a", "b">>],
                              [message |-> "z", path |-> <<>>, temporary |-> FALSE]>>
  /\ field.setErrors.name = "setErrors"
  /\ field.setErrors.path = <<"a">>
  /\ field.setErrors.setErrors.name = "input.setErrors"
  /\ field.errors = <<[message |-> "x", path |-> <<"b">>]>>
  /\ field.selfErrors = <<>>
  /\ field.hasErrors
  /\ ~field.hasSelfErrors

\* ------------------------------------------------------------------ C15
\* every error of the form's list has temporary = true
AllTemporary(st) ==
  \A i \in 1..Len(st.errors) :
    "temporary" \in DOMAIN st.errors[i] /\ st.errors[i].temporary = TRUE

\* C15: canSubmit, in useFormState and in its earlier version, is true
\* exactly when the form's error list is undefined or holds only errors with
\* temporary = true; an error without the flag, or with it false, makes
\* canSubmit false.
C15_TemporaryErrorsDoNotBlock ==
  /\ FormStateOf(state).canSubmit = ("errors" \notin DOMAIN state \/ AllTemporary(state))
  /\ canSubmitEarlier(state) = FormStateOf(state).canSubmit
  /\ \A i \in 1..Len(ErrorsOrEmpty(state)) :
       ("temporary" \notin DOMAIN state.errors[i] \/ state.errors[i].temporary = FALSE)
         => ~FormStateOf(state).canSubmit

\* a validation left one temporary error, and the form can be submitted
C15_Witness ==
  /\ "errors" \in DOMAIN state
  /\ state.errors = <<[message |-> "y", path |-> <<"c">>, temporary |-> TRUE]>>
  /\ FormStateOf(state).canSubmit

\* ------------------------------------------------------------------ C19
\* what the caller handed to the derived field's setValue, found inside the
\* argument u that reached the root's setValue
RECURSIVE CallerArg(_)
CallerArg(u) ==
  IF u.typeof = "function" /\ u.f.name = "valueUpdater"
  THEN CallerArg(u.f.newValue)
  ELSE u

\* the part of the root value x that the derived field projects, found by
\* the operators the argument u went through
RECURSIVE Projected(_, _)
Projected(u, x) ==
  IF u.typeof = "function" /\ u.f.name = "valueUpdater"
  THEN Projected(u.f.newValue, view(u.f.operator, x))
  ELSE x

\* the oldest pending argument of the root's setValue comes from a derived
\* field whose setValue was given a function
FunctionalUpdateIsNext ==
  /\ valueQueue # <<>>
  /\ Head(valueQueue).typeof = "function"
  /\ Head(valueQueue).f.name = "valueUpdater"
  /\ CallerArg(Head(valueQueue)).typeof = "function"

RenderInThisStep == auto' # auto /\ events' = events

\* the hook `key` reaches the autosave in the render that is due: its
\* timestamp is set and is not the one the last render saw
HookActs(key) ==
  /\ auto.mounted
  /\ DepsOf(options, state, auto)[key] # <<>>
  /\ DepsOf(options, state, auto)[key] # auto.deps[key]

\* the render that is due finds the autosave active
ActiveNow == DepsOf(options, state, auto).active

\* the timer made for the deadline that `next` holds has called submit
SubmitCalledFor(n) ==
  /\ auto.timeout # <<>>
  /\ auto.deps.next = <<n>>
  /\ timers[auto.timeout[1]].status = "fired"

\* C16: in a render that finds the autosave active and no submit requested,
\* a blur or commit event sets next to now + delayed and a change event
\* sets it to now + immediate, an event whose delay is undefined leaving
\* next as it was; and as long as next holds a deadline, the timer made for
\* it calls submit, unless next is set anew or cancelled first.
C16_EventsScheduleAutosave ==
  /\ [][ (RenderInThisStep /\ auto.mounted /\ ActiveNow /\ ~HookActs("beforeSubmit")) =>
           NextOf(auto') =
             IF (HookActs("blur") \/ HookActs("commit")) /\ "delayed" \in DOMAIN options.on
             THEN <<now + options.on.delayed>>
             ELSE IF HookActs("change") /\ "immediate" \in DOMAIN options.on
                  THEN <<now + options.on.immediate>>
                  ELSE NextOf(auto)
       ]_vars
  /\ \A n \in 1..(MaxNow + 2) :
       (auto.mounted /\ NextOf(auto) = <<n>>)
         ~> (SubmitCalledFor(n) \/ NextOf(auto) # <<n>>)

\* a change made the form dirty, the autosave scheduled a submit one
\* millisecond later, and its timer has called submit
C16_Witness ==
  /\ auto.mounted
  /\ "lastChanged" \in DOMAIN state
  /\ "lastSubmitRequested" \in DOMAIN state
  /\ state.lastChanged = 1
  /\ NextOf(auto) = <<1 + options.on.immediate>>
  /\ SubmitCalledFor(1 + options.on.immediate)
  /\ timers = <<[due |-> 2, status |-> "fired"]>>
  /\ state.lastSubmitRequested >= 2

\* ------------------------------------------------------------------ C17
\* C17: an autosave that is given disabled = true is never active, never
\* holds a deadline and never makes a timer, whatever events the form
\* records; so it never calls submit.
C17_DisabledNeverSchedules ==
  IsTrue(options, "disabled") =>
    /\ ~active(options, FormOf(options, state))
    /\ auto.mounted => (~auto.status.active /\ ~auto.status.pending)
    /\ NextOf(auto) = <<>>
    /\ timers = <<>>

\* a disabled autosave on a form that could be submitted and is dirty, after
\* a change and a blur or a commit
C17_Witness ==
  /\ IsTrue(options, "disabled")
  /\ ~IsTrue(options.form, "disabled")
  /\ Flushed
  /\ FormOf(options, state).canSubmit
  /\ FormOf(options, state).isDirtySinceSubmitted
  /\ "lastChanged" \in DOMAIN state
  /\ "lastBlurred" \in DOMAIN state \/ "lastCommitted" \in DOMAIN state
  /\ events = MaxEvents

\* ------------------------------------------------------------------ C18
\* this step is a call of the cancel() that the autosave returned
CancelInThisStep == auto'.next # auto.next /\ events' # events

\* the timer id calls submit in this step
FiresInThisStep(id) ==
  /\ timers[id].status = "pending"
  /\ timers'[id].status = "fired"

\* C18: a call of cancel(), by the autosave's user or by the beforeSubmit
\* hook in the render after a submit was requested, leaves next undefined;
\* the status a render returns has pending true exactly when its next is
\* defined; and while next is undefined no outstanding timer calls submit.
C18_CancelStopsTheTimer ==
  /\ [][ (CancelInThisStep \/ (RenderInThisStep /\ HookActs("beforeSubmit"))) =>
           NextOf(auto') = <<>> ]_vars
  /\ [](auto.mounted => (auto.status.pending <=> auto.status.next # <<>>))
  /\ [][ (auto.mounted /\ NextOf(auto) = <<>>) =>
           \A id \in DOMAIN timers : ~FiresInThisStep(id) ]_vars

\* ------------------------------------------------------------------ C20
\* the timers that have neither run nor been cleared
Outstanding == {id \in DOMAIN timers : timers[id].status = "pending"}

\* C20: at most one timer is outstanding; and while next holds a deadline,
\* the only timer that calls submit is the one made for that deadline, a
\* timer made for an earlier deadline having been cleared.
C20_OneTimerOutstanding ==
  /\ [](Cardinality(Outstanding) <= 1)
  /\ [][ \A id \in DOMAIN timers :
           (auto.mounted /\ NextOf(auto) # <<>> /\ FiresInThisStep(id)) =>
             (auto.timeout = <<id>> /\ auto.deps.next = NextOf(auto)) ]_vars

\* ------------------------------------------------------------------ C21
\* the render that is due finds active false after a render that found it
\* true and left an autosave pending
ActiveBecomesFalse ==
  /\ auto.mounted
  /\ auto.deps.active
  /\ ~ActiveNow
  /\ NextOf(auto) # <<>>

\* the pending autosave is cancelled in the render that finds active false
C21_CancelledWhenInactive ==
  [][ (RenderInThisStep /\ ActiveBecomesFalse) => NextOf(auto') = <<>> ]_vars

\* once no render is outstanding, a pending autosave is an active one
C21_PendingImpliesActive ==
  Flushed => (auto.status.pending => auto.status.active)

\* C21: the render that finds active false cancels the pending autosave;
\* from that render until a render finds active true again no timer calls
\* submit; and in every state with no render outstanding pending implies
\* active.
C21_InactiveNeverSubmits ==
  /\ C21_CancelledWhenInactive
  /\ [][ (auto.mounted /\ ~auto.status.active) =>
           \A id \in DOMAIN timers : ~FiresInThisStep(id) ]_vars
  /\ []C21_PendingImpliesActive

\* ------------------------------------------------------------------ C22
\* this step is a render of the component that calls useFormHook
RenderHookInThisStep == hook' # hook

\* the action of useFormHook runs once in this step
ActionRunsInThisStep == hook'.runs = hook.runs + 1

\* the timestamps the form holds for the hooks listed, the set ones only
SetTimestamps == HookValue(FormStateOf(state), hook.hooks)

\* the form holds, for one of the hooks listed, another timestamp than the
\* last render saw
SomeTimestampChanged ==
  \E i \in 1..Len(hook.hooks) :
    LET k == FORM_HOOKS[hook.hooks[i]]
    IN  IF k \in DOMAIN state
        THEN (IF k \in DOMAIN hook.seen THEN state[k] # hook.seen[k] ELSE TRUE)
        ELSE k \in DOMAIN hook.seen

\* C22: the action runs only in a render that finds a timestamp of the
\* hooks listed set, and never twice in a render; the first render runs it
\* exactly when a timestamp is set already; a later render runs it exactly
\* when the list of set timestamps is not the one the last render saw, so
\* not when the timestamps are unchanged; and a render that finds any one of
\* the listed hooks' timestamps changed runs it.
C22_ActionRunsOncePerChange ==
  [][ /\ hook'.runs # hook.runs =>
           (RenderHookInThisStep /\ ActionRunsInThisStep /\ Len(SetTimestamps) > 0)
      /\ (RenderHookInThisStep /\ ~hook.mounted) =>
           (ActionRunsInThisStep <=> SetTimestamps # <<>>)
      /\ (RenderHookInThisStep /\ hook.mounted) =>
           /\ ActionRunsInThisStep <=> SetTimestamps # hook.value
           /\ SomeTimestampChanged => ActionRunsInThisStep
           /\ ~SomeTimestampChanged => hook'.runs = hook.runs
    ]_vars

\* a component that listed init and focus: the first render ran the action
\* for the time of initialisation, the render after a focus ran it again,
\* and the render after a change of the value did not
C22_Witness ==
  /\ hook.hooks = <<"init", "focus">>
  /\ hook.mounted
  /\ hook.seen = state
  /\ Len(hook.value) = 2
  /\ "lastChanged" \in DOMAIN state
  /\ events = 2
  /\ hook.runs = 2

\* ------------------------------------------------------------------ C23
\* the form recorded event a, and no event b at that time or later
StrictlyLater(st, a, b) ==
  /\ a \in DOMAIN st
  /\ b \in DOMAIN st => st[a] > st[b]

\* C23: in every state of the form isFocused and isBlurred are not both
\* true; both are false before any focus or blur and when the last focus
\* and the last blur have the same time; isFocused is true exactly when the
\* last focus is strictly later than the last blur, and isBlurred exactly
\* when the last blur is strictly later than the last focus.
C23_FocusedXorBlurred ==
  LET form == FormStateOf(state)
  IN  /\ ~(form.isFocused /\ form.isBlurred)
      /\ ("lastFocused" \notin DOMAIN state /\ "lastBlurred" \notin DOMAIN state) =>
            (~form.isFocused /\ ~form.isBlurred)
      /\ ("lastFocused" \in DOMAIN state /\ "lastBlurred" \in DOMAIN state
            /\ state.lastFocused = state.lastBlurred) =>
            (~form.isFocused /\ ~form.isBlurred)
      /\ form.isFocused <=> StrictlyLater(state, "lastFocused", "lastBlurred")
      /\ form.isBlurred <=> StrictlyLater(state, "lastBlurred", "lastFocused")

\* a form that was blurred and, later, focused
C23_Witness ==
  /\ "lastFocused" \in DOMAIN state
  /\ "lastBlurred" \in DOMAIN state
  /\ state.lastFocused > state.lastBlurred
  /\ FormStateOf(state).isFocused
  /\ ~FormStateOf(state).isBlurred
====
